---------------------------- MODULE Spec2Model ----------------------------
(***************************************************************************)
(* Model of the QuizApp store (StoreProvider in                            *)
(* src/client/navigation/TestsStackNavigator.tsx, lines 170-710) and of    *)
(* the quiz session screen (ActiveQuizScreen, third revision, in           *)
(* src/client/screens/ActiveQuizScreen.tsx, lines 714-1288).               *)
(*                                                                         *)
(* Conventions                                                             *)
(*  - Time is a count of ticks since an epoch; a day has TicksPerDay       *)
(*    ticks and tick 0 of a day is exactly 00:00:00.000Z.  A calendar-day  *)
(*    string "YYYY-MM-DD" is modelled by its day number, and               *)
(*    new Date().toISOString().split("T")[0] by the (UTC) day of `now`.    *)
(*    null is the empty tuple, a date d is the tuple <<d>>.                *)
(*  - JavaScript numbers that carry fractions (scorePercentage, diamonds)  *)
(*    are exact rationals [n |-> numerator, d |-> denominator]; d = 0 is   *)
(*    NaN.  Floating-point rounding is not modelled.                       *)
(*  - generateId() is a fresh-name supply (nextId).                        *)
(*  - op is the label of the operation that ran last and ret its return    *)
(*    value, so that properties can speak about "a call of X".             *)
(***************************************************************************)
EXTENDS Integers, Sequences, FiniteSets, TLC

VARIABLES
    now,          \* the wall clock, in ticks
    streak,       \* StoreState.streak : StreakData
    diamonds,     \* StoreState.diamonds
    runs,         \* StoreState.runs : QuizRun[] (most recent first)
    pausedRuns,   \* StoreState.pausedRuns : PausedRun[]
    nextId,       \* supply of generateId()
    quizzes,      \* StoreState.quizzes : Quiz[]
    manualConfirmation,  \* StoreState.settings.manualConfirmation
    ses,          \* the mounted ActiveQuizScreen: route params and React state
    timers,       \* pending setTimeout callbacks of handleSubmit
    isInitialized,  \* StoreProvider: the initial load has finished
    storage,      \* AsyncStorage: the item under STORAGE_KEY, and the outcome
                  \* of the last setItem of this launch
    saveTimers,   \* pending setTimeout(saveData, 500) callbacks, oldest first
    op,           \* label of the last operation
    ret           \* return value / navigation of the last operation

vars == <<now, streak, diamonds, runs, pausedRuns, nextId, quizzes,
          manualConfirmation, ses, timers, isInitialized, storage, saveTimers,
          op, ret>>

\* what the session screen owns, and what the store operations leave alone
screenVars == <<quizzes, manualConfirmation, ses, timers>>

----------------------------------------------------------------------------
(* Bounds of the model *)

TicksPerDay == 2
MaxDay == 4
MaxRuns == 3
\* records (runs and paused runs) the store may hold when a session begins
MaxLineages == 1
\* setTimeout callbacks that may be pending at once
MaxTimers == 1
\* paused runs that store-level calls of savePausedRun may create
MaxPaused == 2
\* ids that store-level calls may draw from generateId()
MaxIds == 4
\* questions a quiz may hold, and questions that addQuestion may create
MaxQuestions == 3
MaxAdded == 1
\* quizzes the store may hold when addQuiz is called
MaxQuizzes == 2

----------------------------------------------------------------------------
(* Exact arithmetic on JavaScript numbers *)

RECURSIVE GCD(_, _)
GCD(a, b) == IF b = 0 THEN a ELSE GCD(b, a % b)

Abs(x) == IF x < 0 THEN 0 - x ELSE x

NaN == [n |-> 0, d |-> 0]

Rat(a, b) ==
    IF b = 0 THEN NaN
    ELSE LET s == IF b < 0 THEN 0 - 1 ELSE 1
             g == GCD(Abs(a), Abs(b))
         IN  [n |-> (s * a) \div g, d |-> (s * b) \div g]

Num(k) == [n |-> k, d |-> 1]

RatAdd(x, y) == Rat(x.n * y.d + y.n * x.d, x.d * y.d)

RatSub(x, y) == Rat(x.n * y.d - y.n * x.d, x.d * y.d)

RatMul(x, y) == Rat(x.n * y.n, x.d * y.d)

RatDiv(x, y) == Rat(x.n * y.d, x.d * y.n)

\* x >= y on numbers; any comparison with NaN is false
RatGeq(x, y) == x.d # 0 /\ y.d # 0 /\ x.n * y.d >= y.n * x.d

----------------------------------------------------------------------------
(* Calendar *)

Days == 0 .. MaxDay

MaxTime == (MaxDay + 1) * TicksPerDay - 1

\* new Date().toISOString().split("T")[0]
Today(t) == t \div TicksPerDay

\* yesterday.setDate(yesterday.getDate() - 1); toISOString().split("T")[0]
Yesterday(t) == (t - TicksPerDay) \div TicksPerDay

\* new Date("YYYY-MM-DD").getTime(): midnight of that day
DateTime(day) == day * TicksPerDay

\* Math.ceil(x / y) for x >= 0, y > 0
Ceil(x, y) == (x + y - 1) \div y

----------------------------------------------------------------------------
(* Streak accountant *)

DefaultStreak ==
    [currentStreak |-> 0,
     lastCompletedDate |-> << >>,
     freezers |-> 0,
     history |-> [d \in Days |-> "none"]]

\* the streak value a completion produces when the last one was yesterday
NewStreakSkipsYesterdayTest(prev, t) == prev.currentStreak + 1
NewStreak(prev, t) ==
    IF prev.lastCompletedDate = <<Yesterday(t)>>
    THEN prev.currentStreak + 1
    ELSE 1

UpdateStreakNoSameDayGuard(prev, t) ==
    [prev EXCEPT !.currentStreak = NewStreak(prev, t),
                 !.lastCompletedDate = <<Today(t)>>,
                 !.history = [prev.history EXCEPT ![Today(t)] = "completed"]]
\* the updater passed to setStreak by updateStreak
UpdateStreakResult(prev, t) ==
    IF prev.lastCompletedDate = <<Today(t)>>
    THEN prev
    ELSE [prev EXCEPT !.currentStreak = NewStreak(prev, t),
                      !.lastCompletedDate = <<Today(t)>>,
                      !.history = [prev.history EXCEPT ![Today(t)] = "completed"]]

\* diffDays of checkStreak: "Days missed between"
DiffDays(last, t) == Ceil(Abs(t - DateTime(last)), TicksPerDay) - 1

\* the loop marking days last+1 .. last+diffDays as freezed
MarkFreezed(history, last, diffDays) ==
    [d \in Days |->
        IF d >= last + 1 /\ d <= last + diffDays THEN "freezed" ELSE history[d]]

ResetStreakAlsoDropsFreezers(prev) ==
    [prev EXCEPT !.currentStreak = 0, !.freezers = 0]
\* the branch "Not enough freezers, reset streak"
ResetStreak(prev) == [prev EXCEPT !.currentStreak = 0]

\* the updater passed to setStreak by checkStreak
CheckStreakResultKeepsLastDate(prev, t) ==
    IF prev.lastCompletedDate = <<Today(t)>> THEN prev
    ELSE IF prev.lastCompletedDate = <<Yesterday(t)>> THEN prev
    ELSE IF prev.lastCompletedDate = << >> THEN prev
    ELSE LET last == prev.lastCompletedDate[1]
             diffDays == DiffDays(last, t)
         IN  IF diffDays > 0
             THEN IF prev.freezers >= diffDays
                  THEN [prev EXCEPT
                          !.freezers = prev.freezers - diffDays,
                          !.history = MarkFreezed(prev.history, last, diffDays)]
                  ELSE ResetStreak(prev)
             ELSE prev
CheckStreakResult(prev, t) ==
    IF prev.lastCompletedDate = <<Today(t)>> THEN prev
    ELSE IF prev.lastCompletedDate = <<Yesterday(t)>> THEN prev
    ELSE IF prev.lastCompletedDate = << >> THEN prev
    ELSE LET last == prev.lastCompletedDate[1]
             diffDays == DiffDays(last, t)
         IN  IF diffDays > 0
             THEN IF prev.freezers >= diffDays
                  THEN [prev EXCEPT
                          !.freezers = prev.freezers - diffDays,
                          !.lastCompletedDate = <<Yesterday(t)>>,
                          !.history = MarkFreezed(prev.history, last, diffDays)]
                  ELSE ResetStreak(prev)
             ELSE prev

\* price of a freezer in buyFreezer
FreezerCost == 100

\* "You have {streak.freezers} / 3", disabled={streak.freezers >= 3}
FreezerCap == 3

----------------------------------------------------------------------------
(* Run ledger *)

\* rawDiamonds = run.totalQuestions * 0.5 * (run.scorePercentage / 100)
DiamondsEarnedIgnoresScore(run) == RatMul(Num(run.totalQuestions), Rat(1, 2))
DiamondsEarned(run) ==
    RatMul(RatMul(Num(run.totalQuestions), Rat(1, 2)),
           RatDiv(run.scorePercentage, Num(100)))

\* newRun = {...run, id: generateId(), timestamp, diamondsEarned}
NewRun(run, id) ==
    [id |-> id,
     quizId |-> run.quizId,
     scorePercentage |-> run.scorePercentage,
     totalQuestions |-> run.totalQuestions,
     correctCount |-> run.correctCount,
     wrongCount |-> run.wrongCount,
     answers |-> run.answers,
     isIncomplete |-> run.isIncomplete,
     diamondsEarned |-> DiamondsEarned(run)]

\* setRuns((prev) => [newRun, ...prev])
PrependRunAppends(newRun, prev) == Append(prev, newRun)
PrependRun(newRun, prev) == <<newRun>> \o prev

\* finalAnswers.filter((a) => a.isCorrect).length
CorrectCount(answers) ==
    Cardinality({i \in DOMAIN answers : answers[i].isCorrect})

\* (correctCount / finalAnswers.length) * 100
FinishScore(answers) ==
    RatMul(Rat(CorrectCount(answers), Len(answers)), Num(100))

\* calculateIncompleteScore(answers, totalQuestions).scorePercentage
IncompleteScore(answers) ==
    IF Len(answers) > 0
    THEN RatMul(Rat(CorrectCount(answers), Len(answers)), Num(100))
    ELSE Num(0)

\* the argument finishQuiz passes to addRun (isIncomplete is left unset)
FinishRunInputCountsAllWrong(quizId, finalAnswers) ==
    [quizId |-> quizId,
     scorePercentage |-> FinishScore(finalAnswers),
     totalQuestions |-> Len(finalAnswers),
     correctCount |-> CorrectCount(finalAnswers),
     wrongCount |-> Len(finalAnswers),
     answers |-> finalAnswers,
     isIncomplete |-> FALSE]
FinishRunInput(quizId, finalAnswers) ==
    [quizId |-> quizId,
     scorePercentage |-> FinishScore(finalAnswers),
     totalQuestions |-> Len(finalAnswers),
     correctCount |-> CorrectCount(finalAnswers),
     wrongCount |-> Len(finalAnswers) - CorrectCount(finalAnswers),
     answers |-> finalAnswers,
     isIncomplete |-> FALSE]

\* the argument handleEndEarly passes to addRun
EndEarlyRunInputCountsOneMore(quizId, answers) ==
    [quizId |-> quizId,
     scorePercentage |-> IncompleteScore(answers),
     totalQuestions |-> Len(answers) + 1,
     correctCount |-> CorrectCount(answers),
     wrongCount |-> Len(answers) - CorrectCount(answers),
     answers |-> answers,
     isIncomplete |-> TRUE]
EndEarlyRunInput(quizId, answers) ==
    [quizId |-> quizId,
     scorePercentage |-> IncompleteScore(answers),
     totalQuestions |-> Len(answers),
     correctCount |-> CorrectCount(answers),
     wrongCount |-> Len(answers) - CorrectCount(answers),
     answers |-> answers,
     isIncomplete |-> TRUE]

----------------------------------------------------------------------------
(* Quiz catalog *)

\* an optional value: << >> is undefined, <<v>> is v
Undefined == << >>
Some(v) == <<v>>

Range(seq) == {seq[i] : i \in DOMAIN seq}

\* Two quizzes.  quiz1 has a question with two correct answers, a question
\* with one, and a question without any correct answer; quiz2 has a single
\* question with a correct and an incorrect answer.
Catalog ==
    << [id |-> "quiz1",
        questions |->
          << [id |-> "q1", orderIndex |-> 0,
              answers |-> << [id |-> "a1", isCorrect |-> TRUE],
                             [id |-> "a2", isCorrect |-> TRUE] >>],
             [id |-> "q2", orderIndex |-> 1,
              answers |-> << [id |-> "b1", isCorrect |-> TRUE] >>],
             [id |-> "q3", orderIndex |-> 2,
              answers |-> << [id |-> "c1", isCorrect |-> FALSE] >>] >>],
       [id |-> "quiz2",
        questions |->
          << [id |-> "r1", orderIndex |-> 0,
              answers |-> << [id |-> "d1", isCorrect |-> TRUE],
                             [id |-> "d2", isCorrect |-> FALSE] >>] >>] >>

\* getQuiz(id): quizzes.find((q) => q.id === id)
GetQuiz(id) ==
    IF \E i \in DOMAIN quizzes : quizzes[i].id = id
    THEN Some(quizzes[CHOOSE i \in DOMAIN quizzes :
                        /\ quizzes[i].id = id
                        /\ \A j \in DOMAIN quizzes :
                              quizzes[j].id = id => i <= j])
    ELSE Undefined

\* getPausedRun(id): pausedRuns.find((r) => r.id === id)
GetPausedRun(id) ==
    IF \E i \in DOMAIN pausedRuns : pausedRuns[i].id = id
    THEN Some(pausedRuns[CHOOSE i \in DOMAIN pausedRuns :
                           /\ pausedRuns[i].id = id
                           /\ \A j \in DOMAIN pausedRuns :
                                 pausedRuns[j].id = id => i <= j])
    ELSE Undefined

----------------------------------------------------------------------------
(* Session setup *)

\* q.answers.some((a) => a.isCorrect)
HasAnyAnswer(q) == q.answers # << >>
HasCorrectAnswer(q) == \E i \in DOMAIN q.answers : q.answers[i].isCorrect

\* qs.sort((a, b) => a.orderIndex - b.orderIndex): a stable insertion sort
RECURSIVE InsertByOrderIndex(_, _)
InsertByOrderIndex(q, sorted) ==
    IF sorted = << >> THEN <<q>>
    ELSE IF q.orderIndex < sorted[1].orderIndex THEN <<q>> \o sorted
    ELSE <<sorted[1]>> \o InsertByOrderIndex(q, Tail(sorted))

RECURSIVE SortByOrderIndex(_)
SortByOrderIndex(qs) ==
    IF qs = << >> THEN << >>
    ELSE InsertByOrderIndex(qs[Len(qs)],
                            SortByOrderIndex(SubSeq(qs, 1, Len(qs) - 1)))

Swap(seq, i, j) == [seq EXCEPT ![i] = seq[j], ![j] = seq[i]]

\* shuffleArray: the results of the Fisher-Yates loop over every outcome of
\* Math.random(); i runs from the last position down to the second
RECURSIVE ShuffleFrom(_, _)
ShuffleFrom(seq, i) ==
    IF i <= 1 THEN {seq}
    ELSE UNION {ShuffleFrom(Swap(seq, i, j), i - 1) : j \in 1 .. i}

ShuffleArray(seq) == ShuffleFrom(seq, Len(seq))

\* no ActiveQuizScreen is mounted
NoSession ==
    [mounted |-> FALSE,
     testId |-> "",
     shuffle |-> FALSE,
     shuffleAnswers |-> FALSE,
     questionIds |-> Undefined,
     pausedRunId |-> Undefined,
     questions |-> << >>,
     currentIndex |-> 0,
     selectedAnswerIds |-> {},
     isSubmitted |-> FALSE,
     answers |-> << >>,
     activePausedRunId |-> Undefined,
     dialog |-> Undefined,
     lineage |-> 0,
     presented |-> {}]

\* the pausedRun memo: getPausedRun(pausedRunId) if the route names one
PausedRunOf(pausedRunId) ==
    IF pausedRunId # Undefined THEN GetPausedRun(pausedRunId[1])
    ELSE Undefined

\* questionIds || pausedRun?.questionIds  (an array, even empty, is truthy)
EffectiveQuestionIds(questionIds, pausedRun) ==
    IF questionIds # Undefined THEN questionIds
    ELSE IF pausedRun # Undefined THEN pausedRun[1].questionIds
    ELSE Undefined

\* shuffle || pausedRun?.shuffle, read as a condition
EffectiveShuffle(shuffle, pausedRun) ==
    shuffle \/ (pausedRun # Undefined /\ pausedRun[1].shuffle)

\* shuffleAnswers || pausedRun?.shuffleAnswers, read as a condition
EffectiveShuffleAnswers(shuffleAnswers, pausedRun) ==
    shuffleAnswers \/ (pausedRun # Undefined /\ pausedRun[1].shuffleAnswers)

\* ids && ids.length > 0
NonEmptyIds(ids) == ids # Undefined /\ ids[1] # {}

\* isMiniRun
IsMiniRunNever(effectiveQuestionIds, pausedRun) == FALSE
IsMiniRun(effectiveQuestionIds, pausedRun) ==
    \/ NonEmptyIds(effectiveQuestionIds)
    \/ (pausedRun # Undefined /\ NonEmptyIds(pausedRun[1].questionIds))

\* isMiniRun as the mounted screen s computes it on a render
SessionIsMiniRun(s) ==
    IsMiniRun(EffectiveQuestionIds(s.questionIds, PausedRunOf(s.pausedRunId)),
              PausedRunOf(s.pausedRunId))

\* the questions memo before shuffling: filter, restrict, sort
BaseQuestions(quiz, effectiveQuestionIds) ==
    IF quiz = Undefined THEN << >>
    ELSE LET playable == SelectSeq(quiz[1].questions, HasCorrectAnswer)
             InSubset(q) == q.id \in effectiveQuestionIds[1]
             restricted ==
               IF NonEmptyIds(effectiveQuestionIds)
               THEN SelectSeq(playable, InSubset)
               ELSE playable
         IN  SortByOrderIndex(restricted)

\* qs.map(q => ({...q, answers: shuffleArray(q.answers)})): every outcome
RECURSIVE ShuffleAnswers(_)
ShuffleAnswers(qs) ==
    IF qs = << >> THEN {<< >>}
    ELSE {<<[qs[1] EXCEPT !.answers = a]>> \o rest :
            a \in ShuffleArray(qs[1].answers),
            rest \in ShuffleAnswers(Tail(qs))}

\* the questions memo: every sequence that setup can produce
QuestionsInPlay(quiz, effectiveShuffle, effectiveShuffleAnswers, effectiveQuestionIds) ==
    LET base == BaseQuestions(quiz, effectiveQuestionIds)
        ordered == IF effectiveShuffle THEN ShuffleArray(base) ELSE {base}
    IN  IF effectiveShuffleAnswers
        THEN UNION {ShuffleAnswers(qs) : qs \in ordered}
        ELSE ordered

\* questions[currentIndex] (JavaScript indexes from 0)
CurrentQuestion(s) ==
    IF s.currentIndex + 1 \in DOMAIN s.questions
    THEN Some(s.questions[s.currentIndex + 1])
    ELSE Undefined

\* the ids of the questions shown so far (not program state: a record of
\* what the user has seen, answered questions of a resumed run included)
Presented(s) ==
    s.presented \cup {a.questionId : a \in Range(s.answers)}
                \cup {q.id : q \in Range(CurrentQuestion(s))}

\* The state of a freshly mounted ActiveQuizScreen for route params
\* {testId, shuffle, shuffleAnswers, questionIds, pausedRunId};
\* qs is the outcome of the questions memo.
Mounted(testId, shuffle, shuffleAnswers, questionIds, pausedRunId, qs) ==
    LET pausedRun == PausedRunOf(pausedRunId)
        fresh == [NoSession EXCEPT
                    !.mounted = TRUE,
                    !.lineage = IF pausedRun # Undefined
                                THEN pausedRun[1].lineage ELSE nextId,
                    !.testId = testId,
                    !.shuffle = shuffle,
                    !.shuffleAnswers = shuffleAnswers,
                    !.questionIds = questionIds,
                    !.pausedRunId = pausedRunId,
                    !.questions = qs,
                    !.currentIndex =
                       IF pausedRun # Undefined
                       THEN pausedRun[1].currentQuestionIndex ELSE 0,
                    !.selectedAnswerIds =
                       IF pausedRun # Undefined
                       THEN pausedRun[1].selectedAnswerIds ELSE {},
                    !.answers =
                       IF pausedRun # Undefined
                       THEN pausedRun[1].answers ELSE << >>,
                    !.activePausedRunId = pausedRunId]
    IN  [fresh EXCEPT !.presented = Presented(fresh)]

\* navigation to "ActiveQuiz" with the given route params
Navigate(testId, shuffle, shuffleAnswers, questionIds, pausedRunId) ==
    LET pausedRun == PausedRunOf(pausedRunId)
        effectiveQuestionIds == EffectiveQuestionIds(questionIds, pausedRun)
    IN  \E qs \in QuestionsInPlay(GetQuiz(testId),
                                  EffectiveShuffle(shuffle, pausedRun),
                                  EffectiveShuffleAnswers(shuffleAnswers,
                                                          pausedRun),
                                  effectiveQuestionIds) :
          ses' = Mounted(testId, shuffle, shuffleAnswers, questionIds,
                         pausedRunId, qs)

----------------------------------------------------------------------------
(* Persistence: the document under STORAGE_KEY and the debounced save *)

\* the object saveData builds from the state of one render
DataOf(q, r, p, m, s, d) ==
    [quizzes |-> q,
     runs |-> r,
     pausedRuns |-> p,
     settings |-> [manualConfirmation |-> m],
     streak |-> s,
     diamonds |-> d]

\* the state of the current render
Data == DataOf(quizzes, runs, pausedRuns, manualConfirmation, streak, diamonds)

\* JSON null where a number is expected; arithmetic reads it as 0
JsonNull == [n |-> 0, d |-> 1, null |-> TRUE]

\* JSON.stringify of a number: NaN becomes null
JsonNumber(x) == IF x.d = 0 THEN JsonNull ELSE x

\* JSON.stringify of a Date: toISOString()
ToISOString(t) == <<"iso", t>>

\* new Date(isoString)
NewDate(iso) == iso[2]

\* JSON.stringify of a QuizRun
JsonRun(r) ==
    [r EXCEPT !.scorePercentage = JsonNumber(@),
              !.diamondsEarned = JsonNumber(@)]

\* JSON.stringify of a PausedRun
JsonPausedRun(p) == [p EXCEPT !.timestamp = ToISOString(@)]

\* JSON.stringify(data): every key of data is present in the text
Stringify(data) ==
    [quizzes |-> Some(data.quizzes),
     runs |-> Some([i \in DOMAIN data.runs |-> JsonRun(data.runs[i])]),
     pausedRuns |->
        Some([i \in DOMAIN data.pausedRuns |-> JsonPausedRun(data.pausedRuns[i])]),
     settings |-> Some(data.settings),
     streak |-> Some(data.streak),
     diamonds |-> Some(JsonNumber(data.diamonds))]

\* a stored text that JSON.parse accepts, with the object it yields
Text(json) == [parses |-> TRUE, json |-> json]

\* a stored text that makes JSON.parse throw: what is left of the text of
\* json after it was cut short
Truncated(json) == [parses |-> FALSE, json |-> json]

\* the useState defaults of StoreProvider
DefaultData == DataOf(<< >>, << >>, << >>, FALSE, DefaultStreak, Num(0))

\* loadData: the state after the setters that the keys of the parsed object
\* select; a key the object lacks leaves its part of the state alone
Loaded(data, json) ==
    [quizzes |-> IF json.quizzes # Undefined THEN json.quizzes[1]
                 ELSE data.quizzes,
     runs |-> IF json.runs # Undefined THEN json.runs[1] ELSE data.runs,
     pausedRuns |->
        IF json.pausedRuns # Undefined
        THEN [i \in DOMAIN json.pausedRuns[1] |->
                [json.pausedRuns[1][i] EXCEPT !.timestamp = NewDate(@)]]
        ELSE data.pausedRuns,
     settings |-> IF json.settings # Undefined THEN json.settings[1]
                  ELSE data.settings,
     streak |-> IF json.streak # Undefined THEN json.streak[1]
                ELSE data.streak,
     diamonds |-> IF json.diamonds # Undefined THEN json.diamonds[1]
                  ELSE data.diamonds]

\* The effect "Save data on changes", run after a commit in which one of its
\* dependencies changed: the cleanup of the previous run clears its timer,
\* and a new timer is set when the store is initialized.  The timer holds the
\* state of the render that set it.
SaveEffectKeepsOldTimer(rerun) ==
    saveTimers' =
      IF rerun /\ isInitialized'
      THEN Append(saveTimers,
                  DataOf(quizzes', runs', pausedRuns', manualConfirmation',
                         streak', diamonds'))
      ELSE saveTimers
SaveEffectBeforeLoad(rerun) ==
    saveTimers' =
      IF rerun
      THEN <<DataOf(quizzes', runs', pausedRuns', manualConfirmation',
                    streak', diamonds')>>
      ELSE saveTimers
SaveEffect(rerun) ==
    saveTimers' =
      IF rerun
      THEN IF isInitialized'
           THEN <<DataOf(quizzes', runs', pausedRuns', manualConfirmation',
                         streak', diamonds')>>
           ELSE << >>
      ELSE saveTimers

\* the commit of an operation whose updaters return the previous value when
\* nothing changes
StoreCommit ==
    /\ UNCHANGED <<isInitialized, storage>>
    /\ SaveEffect(DataOf(quizzes', runs', pausedRuns', manualConfirmation',
                         streak', diamonds') # Data)

\* the commit of an operation whose updaters always build a new value
\* (filter, map, spread)
StoreCommitNewValue ==
    /\ UNCHANGED <<isInitialized, storage>>
    /\ SaveEffect(TRUE)

----------------------------------------------------------------------------
(* Initial states *)

\* Diamond balances the store can hold while the streak is still at its
\* default: runs ended early credit diamonds without touching the streak,
\* and every credit is a multiple of 1/2 for runs built by the session screen.
InitDiamonds == {Num(0), Rat(199, 2), Num(100), Num(450)}

InitStore ==
    /\ now = 0
    /\ streak = DefaultStreak
    /\ diamonds \in InitDiamonds
    /\ runs = << >>
    /\ pausedRuns = << >>
    /\ nextId = 1
    /\ quizzes = Catalog
    /\ manualConfirmation \in BOOLEAN
    /\ ses = NoSession
    /\ timers = {}
    /\ isInitialized = TRUE
    /\ storage = [item |-> Some(Text(Stringify(Data))), lastWrite |-> "ok"]
    /\ saveTimers = << >>
    /\ op = "init"
    /\ ret = "void"

----------------------------------------------------------------------------
(* Store operations *)

\* time passes
AdvanceClock ==
    /\ \E t \in (now + 1) .. MaxTime : now' = t
    /\ op' = "advanceClock"
    /\ ret' = "void"
    /\ UNCHANGED <<streak, diamonds, runs, pausedRuns, nextId, screenVars>>
    /\ StoreCommit

\* updateStreak()
UpdateStreak ==
    /\ streak' = UpdateStreakResult(streak, now)
    /\ op' = "updateStreak"
    /\ ret' = "void"
    /\ UNCHANGED <<now, diamonds, runs, pausedRuns, nextId, screenVars>>
    /\ StoreCommit

\* the effect "Check streak status on initialization": runs once each time
\* the store finishes loading, that is at every launch of the app
CheckStreak ==
    /\ streak' = CheckStreakResult(streak, now)
    /\ op' = "checkStreak"
    /\ ret' = "void"
    /\ UNCHANGED <<now, diamonds, runs, pausedRuns, nextId, screenVars>>
    /\ StoreCommit

\* buyFreezer(): boolean
BuyFreezer ==
    /\ IF RatGeq(diamonds, Num(FreezerCost))
       THEN /\ diamonds' = RatSub(diamonds, Num(FreezerCost))
            /\ streak' = [streak EXCEPT !.freezers = streak.freezers + 1]
            /\ ret' = "true"
       ELSE /\ ret' = "false"
            /\ UNCHANGED <<diamonds, streak>>
    /\ op' = "buyFreezer"
    /\ UNCHANGED <<now, runs, pausedRuns, nextId, screenVars>>
    /\ StoreCommit

\* addRun(run): setRuns, setDiamonds and the id drawn for the new run
AddRunEffect(run) ==
    /\ runs' = PrependRun(NewRun(run, nextId), runs)
    /\ diamonds' = RatAdd(diamonds, DiamondsEarned(run))
    /\ nextId' = nextId + 1

\* addRun(run): QuizRun
AddRun(run) ==
    /\ Len(runs) < MaxRuns
    /\ nextId <= MaxIds
    /\ AddRunEffect(run)
    /\ op' = "addRun"
    /\ ret' = "void"
    /\ UNCHANGED <<now, streak, pausedRuns, screenVars>>
    /\ StoreCommit

----------------------------------------------------------------------------
(* The streak accountant and the freezer shop, driven by the clock *)

NextStreak == AdvanceClock \/ UpdateStreak \/ CheckStreak \/ BuyFreezer

SpecStreak == InitStore /\ [][NextStreak]_vars

----------------------------------------------------------------------------
(* The run ledger and the diamond balance under addRun and buyFreezer *)

SampleQuestionIds ==
    <<"q1", "q2", "q3", "q4", "q5", "q6", "q7", "q8", "q9", "q10">>

\* an answer list of `total` submitted questions, the first `correct` right
SampleAnswers(total, correct) ==
    [i \in 1 .. total |->
        [questionId |-> SampleQuestionIds[i],
         selectedAnswerIds |-> {"a1"},
         isCorrect |-> i <= correct]]

\* runs as the session screen hands them to addRun
LedgerInputs ==
    {FinishRunInput("quiz1", SampleAnswers(10, 8)),
     FinishRunInput("quiz1", SampleAnswers(3, 1)),
     FinishRunInput("quiz2", SampleAnswers(1, 1)),
     EndEarlyRunInput("quiz1", SampleAnswers(2, 1)),
     EndEarlyRunInput("quiz2", << >>)}

AddRunCall == \E run \in LedgerInputs : AddRun(run)

NextLedger == AddRunCall \/ BuyFreezer

SpecLedger == InitStore /\ [][NextLedger]_vars

----------------------------------------------------------------------------
(* The quiz session screen *)

\* savePausedRun: the id it returns
SavedId(existingId) == IF existingId # Undefined THEN existingId[1] ELSE nextId

\* savePausedRun: the setPausedRuns updater (replace in place, or prepend)
SavePausedRunResult(prev, newPausedRun) ==
    IF \E i \in DOMAIN prev : prev[i].id = newPausedRun.id
    THEN [prev EXCEPT ![CHOOSE i \in DOMAIN prev :
                          /\ prev[i].id = newPausedRun.id
                          /\ \A j \in DOMAIN prev :
                                prev[j].id = newPausedRun.id => i <= j]
                        = newPausedRun]
    ELSE <<newPausedRun>> \o prev

\* deletePausedRun: prev.filter((r) => r.id !== id)
DeletePausedRunResult(prev, id) ==
    LET Keep(r) == r.id # id IN SelectSeq(prev, Keep)

\* The state a callback closes over: the values of the render that created
\* it.  The AppState listener is re-subscribed on every change and sees the
\* current values; the buttons of the exit dialog keep the handlePause and
\* handleEndEarly of the render in which handleQuit opened it.
Captured(s) ==
    [currentIndex |-> s.currentIndex,
     selectedAnswerIds |-> s.selectedAnswerIds,
     answers |-> s.answers,
     activePausedRunId |-> s.activePausedRunId]

\* the argument handlePause and the AppState listener give to savePausedRun,
\* for the closure values c (lineage is bookkeeping: the session that began
\* with "Start Quiz" and everything resumed from its paused runs)
PausedRunOfSession(s, c) ==
    LET pausedRun == PausedRunOf(s.pausedRunId)
    IN  [id |-> SavedId(c.activePausedRunId),
         quizId |-> s.testId,
         currentQuestionIndex |-> c.currentIndex,
         selectedAnswerIds |-> c.selectedAnswerIds,
         answers |-> c.answers,
         shuffle |-> EffectiveShuffle(s.shuffle, pausedRun),
         shuffleAnswers |-> EffectiveShuffleAnswers(s.shuffleAnswers, pausedRun),
         questionIds |-> EffectiveQuestionIds(s.questionIds, pausedRun),
         timestamp |-> now,
         lineage |-> s.lineage]

\* savePausedRun called from the mounted screen with closure values c
SavePausedRun(c) ==
    /\ pausedRuns' = SavePausedRunResult(pausedRuns, PausedRunOfSession(ses, c))
    /\ nextId' = IF c.activePausedRunId # Undefined THEN nextId
                 ELSE nextId + 1

\* the screen goes away: its pending timers keep running, but their state
\* setters no longer reach a mounted component
Unmount ==
    /\ ses' = NoSession
    /\ timers' = {[t EXCEPT !.live = FALSE] : t \in timers}

\* PreQuizScreen.handleStartQuiz, explored while the store holds fewer than
\* maxRecords runs and paused runs
StartQuizWithin(maxRecords) ==
    /\ ~ses.mounted
    /\ Len(runs) + Len(pausedRuns) < maxRecords
    /\ \E q \in Range(quizzes), shuffle \in BOOLEAN :
         Navigate(q.id, shuffle, FALSE, Undefined, Undefined)
    /\ op' = "startQuiz"
    /\ ret' = "void"
    /\ UNCHANGED <<now, streak, diamonds, runs, pausedRuns, nextId, quizzes,
                   manualConfirmation, timers>>
    /\ StoreCommit

\* PreQuizScreen.handleStartQuiz
StartQuiz == StartQuizWithin(MaxLineages)

\* HistoryListScreen.handleResumeRun
ResumeRun ==
    /\ ~ses.mounted
    /\ Len(runs) + Len(pausedRuns) <= MaxLineages
    /\ \E p \in Range(pausedRuns) :
         Navigate(p.quizId, FALSE, FALSE, Undefined, Some(p.id))
    /\ op' = "resumeRun"
    /\ ret' = "void"
    /\ UNCHANGED <<now, streak, diamonds, runs, pausedRuns, nextId, quizzes,
                   manualConfirmation, timers>>
    /\ StoreCommit

\* the questions a run got wrong
WrongQuestionIds(run) ==
    {a.questionId : a \in {x \in Range(run.answers) : ~x.isCorrect}}

\* HistoryDetailScreen.handleRetryMistakes
RetryMistakes ==
    /\ ~ses.mounted
    /\ Len(runs) + Len(pausedRuns) <= MaxLineages
    /\ \E r \in Range(runs) :
         /\ GetQuiz(r.quizId) # Undefined
         /\ WrongQuestionIds(r) # {}
         /\ Navigate(r.quizId, FALSE, FALSE, Some(WrongQuestionIds(r)),
                     Undefined)
    /\ op' = "retryMistakes"
    /\ ret' = "void"
    /\ UNCHANGED <<now, streak, diamonds, runs, pausedRuns, nextId, quizzes,
                   manualConfirmation, timers>>
    /\ StoreCommit

\* handleAnswerSelect(answerId), for an answer of the question on screen
HandleAnswerSelect ==
    /\ ses.mounted
    /\ ses.dialog = Undefined
    /\ CurrentQuestion(ses) # Undefined
    /\ ~ses.isSubmitted
    /\ \E a \in Range(CurrentQuestion(ses)[1].answers) :
         ses' = [ses EXCEPT !.selectedAnswerIds =
                   IF a.id \in @ THEN @ \ {a.id} ELSE @ \cup {a.id}]
    /\ op' = "handleAnswerSelect"
    /\ ret' = "void"
    /\ UNCHANGED <<now, streak, diamonds, runs, pausedRuns, nextId, quizzes,
                   manualConfirmation, timers>>
    /\ StoreCommit

\* correctIds of handleSubmit
CorrectIds(question) ==
    {a.id : a \in {x \in Range(question.answers) : x.isCorrect}}

\* isCorrect of handleSubmit
IsCorrectSelectionNoLengthTest(selectedAnswerIds, correctIds) ==
    \A id \in selectedAnswerIds : id \in correctIds
IsCorrectSelection(selectedAnswerIds, correctIds) ==
    /\ Cardinality(selectedAnswerIds) = Cardinality(correctIds)
    /\ \A id \in selectedAnswerIds : id \in correctIds

\* newAnswer of handleSubmit
NewAnswer(question, selectedAnswerIds) ==
    [questionId |-> question.id,
     selectedAnswerIds |-> selectedAnswerIds,
     isCorrect |-> IsCorrectSelection(selectedAnswerIds, CorrectIds(question))]

\* the setAnswers updater of handleSubmit
RecordAnswerAlwaysAppends(prev, newAnswer) == Append(prev, newAnswer)
RecordAnswer(prev, newAnswer) ==
    IF \E a \in Range(prev) : a.questionId = newAnswer.questionId
    THEN prev
    ELSE Append(prev, newAnswer)

\* handleSubmit, reached through the "Submit Answer" button
HandleSubmit ==
    /\ ses.mounted
    /\ ses.dialog = Undefined
    /\ ~ses.isSubmitted
    /\ ses.selectedAnswerIds # {}
    /\ CurrentQuestion(ses) # Undefined
    /\ manualConfirmation \/ Cardinality(timers) < MaxTimers
    /\ ses' = [ses EXCEPT
                 !.isSubmitted = TRUE,
                 !.answers = RecordAnswer(@, NewAnswer(CurrentQuestion(ses)[1],
                                                       ses.selectedAnswerIds))]
    /\ timers' = IF manualConfirmation THEN timers
                 ELSE timers \cup {[currentIndex |-> ses.currentIndex,
                                    length |-> Len(ses.questions),
                                    live |-> TRUE]}
    /\ op' = "handleSubmit"
    /\ ret' = "void"
    /\ UNCHANGED <<now, streak, diamonds, runs, pausedRuns, nextId, quizzes,
                   manualConfirmation>>
    /\ StoreCommit

\* setCurrentIndex(prev + 1); setSelectedAnswerIds([]); setIsSubmitted(false)
NextQuestion(s) ==
    LET moved == [s EXCEPT !.currentIndex = @ + 1,
                           !.selectedAnswerIds = {},
                           !.isSubmitted = FALSE]
    IN  [moved EXCEPT !.presented = Presented(moved)]

\* finishQuiz(finalAnswers)
FinishQuiz(finalAnswers) ==
    IF ~SessionIsMiniRun(ses)
    THEN /\ AddRunEffect(FinishRunInput(ses.testId, finalAnswers))
         /\ streak' = UpdateStreakResult(streak, now)
         /\ pausedRuns' = IF ses.activePausedRunId # Undefined
                          THEN DeletePausedRunResult(pausedRuns,
                                                     ses.activePausedRunId[1])
                          ELSE pausedRuns
         /\ ret' = "results"
    ELSE /\ ret' = "resultsMini"
         /\ UNCHANGED <<runs, diamonds, nextId, streak, pausedRuns>>

\* handleNext, reached through the "Next Question" / "Finish Quiz" button
HandleNext ==
    /\ ses.mounted
    /\ ses.dialog = Undefined
    /\ ses.isSubmitted
    /\ manualConfirmation
    /\ IF ses.currentIndex < Len(ses.questions) - 1
       THEN /\ ses' = NextQuestion(ses)
            /\ ret' = "void"
            /\ UNCHANGED <<runs, diamonds, nextId, streak, pausedRuns, timers>>
       ELSE /\ FinishQuiz(ses.answers)
            /\ Unmount
    /\ op' = "handleNext"
    /\ UNCHANGED <<now, quizzes, manualConfirmation>>
    /\ StoreCommit

\* the three setters of the callback of timer t, as they reach session s:
\* the setters of a screen that is gone change nothing
TimerAdvanceReachesAnyScreen(t, s) == IF s.mounted THEN NextQuestion(s) ELSE s
TimerAdvance(t, s) == IF t.live THEN NextQuestion(s) ELSE s

\* The setTimeout callback of handleSubmit.  With the captured index short of
\* the last question it moves on (a no-op once the screen is gone); on the
\* last question it reads updatedAnswers, which nothing declares, and the
\* ReferenceError ends the callback before addRun.
AutoAdvance ==
    /\ \E t \in timers :
         /\ timers' = timers \ {t}
         /\ IF t.currentIndex < t.length - 1
            THEN /\ ses' = TimerAdvance(t, ses)
                 /\ ret' = "void"
            ELSE /\ ses' = ses
                 /\ ret' = "throws"
    /\ op' = "autoAdvance"
    /\ UNCHANGED <<now, streak, diamonds, runs, pausedRuns, nextId, quizzes,
                   manualConfirmation>>
    /\ StoreCommit

\* handleQuit (header button, hardware back): the exit dialog opens and its
\* buttons hold the handlePause and handleEndEarly of this render
HandleQuit ==
    /\ ses.mounted
    /\ ses.dialog = Undefined
    /\ ses' = [ses EXCEPT !.dialog = Some(Captured(ses))]
    /\ op' = "handleQuit"
    /\ ret' = "void"
    /\ UNCHANGED <<now, streak, diamonds, runs, pausedRuns, nextId, quizzes,
                   manualConfirmation, timers>>
    /\ StoreCommit

\* "Cancel" in the exit dialog (or in the "End Test Early?" confirmation)
DialogCancel ==
    /\ ses.mounted
    /\ ses.dialog # Undefined
    /\ ses' = [ses EXCEPT !.dialog = Undefined]
    /\ op' = "dialogCancel"
    /\ ret' = "void"
    /\ UNCHANGED <<now, streak, diamonds, runs, pausedRuns, nextId, quizzes,
                   manualConfirmation, timers>>
    /\ StoreCommit

\* handlePause ("Pause & Exit" in the exit dialog)
HandlePause ==
    /\ ses.mounted
    /\ ses.dialog # Undefined
    /\ IF SessionIsMiniRun(ses)
       THEN UNCHANGED <<pausedRuns, nextId>>
       ELSE SavePausedRun(ses.dialog[1])
    /\ Unmount
    /\ op' = "handlePause"
    /\ ret' = "goBack"
    /\ UNCHANGED <<now, streak, diamonds, runs, quizzes, manualConfirmation>>
    /\ StoreCommit

\* handleEndEarly ("End Early" in the exit dialog), confirmed with "End Test"
HandleEndEarlyCompletesStreak ==
    /\ ses.mounted
    /\ ses.dialog # Undefined
    /\ IF ~SessionIsMiniRun(ses)
       THEN /\ AddRunEffect(EndEarlyRunInput(ses.testId, ses.dialog[1].answers))
            /\ pausedRuns' = IF ses.dialog[1].activePausedRunId # Undefined
                             THEN DeletePausedRunResult(
                                    pausedRuns, ses.dialog[1].activePausedRunId[1])
                             ELSE pausedRuns
            /\ streak' = UpdateStreakResult(streak, now)
            /\ ret' = "results"
       ELSE /\ ret' = "goBack"
            /\ UNCHANGED <<runs, diamonds, nextId, pausedRuns, streak>>
    /\ Unmount
    /\ op' = "handleEndEarly"
    /\ UNCHANGED <<now, quizzes, manualConfirmation>>
    /\ StoreCommit
HandleEndEarly ==
    /\ ses.mounted
    /\ ses.dialog # Undefined
    /\ IF ~SessionIsMiniRun(ses)
       THEN /\ AddRunEffect(EndEarlyRunInput(ses.testId, ses.dialog[1].answers))
            /\ pausedRuns' = IF ses.dialog[1].activePausedRunId # Undefined
                             THEN DeletePausedRunResult(
                                    pausedRuns, ses.dialog[1].activePausedRunId[1])
                             ELSE pausedRuns
            /\ ret' = "results"
       ELSE /\ ret' = "goBack"
            /\ UNCHANGED <<runs, diamonds, nextId, pausedRuns>>
    /\ Unmount
    /\ op' = "handleEndEarly"
    /\ UNCHANGED <<now, streak, quizzes, manualConfirmation>>
    /\ StoreCommit

\* the AppState listener, on a change to inactive or background
AppBackground ==
    /\ ses.mounted
    /\ IF ~SessionIsMiniRun(ses) /\ ~ses.isSubmitted
       THEN /\ SavePausedRun(Captured(ses))
            /\ ses' = [ses EXCEPT
                         !.activePausedRunId = Some(SavedId(ses.activePausedRunId))]
       ELSE UNCHANGED <<pausedRuns, nextId, ses>>
    /\ op' = "appBackground"
    /\ ret' = "void"
    /\ UNCHANGED <<now, streak, diamonds, runs, quizzes, manualConfirmation,
                   timers>>
    /\ StoreCommit

InitSession == InitStore /\ diamonds = Num(0)

NextSession ==
    \/ StartQuiz
    \/ ResumeRun
    \/ RetryMistakes
    \/ HandleAnswerSelect
    \/ HandleSubmit
    \/ HandleNext
    \/ AutoAdvance
    \/ HandleQuit
    \/ DialogCancel
    \/ HandlePause
    \/ HandleEndEarly
    \/ AppBackground

SpecSession == InitSession /\ [][NextSession]_vars

----------------------------------------------------------------------------
(* Starting a quiz again: sessions that are opened, paused from the exit
   dialog, resumed, and opened anew while a paused run is in the store *)

\* PreQuizScreen.handleStartQuiz, also with a record in the store
StartQuizAgain == StartQuizWithin(MaxLineages + 1)

NextRestart ==
    \/ StartQuizAgain
    \/ ResumeRun
    \/ HandleAnswerSelect
    \/ HandleQuit
    \/ DialogCancel
    \/ HandlePause

SpecRestart == InitSession /\ [][NextRestart]_vars

----------------------------------------------------------------------------
(* Session setup over the route params of ActiveQuiz: the screen is opened
   with every combination of shuffle, shuffleAnswers and questionIds, paused
   from the exit dialog and resumed from the stored paused run *)

\* questionIds a route may carry: none, an empty list, ids of the quiz and
\* an id that names no question
QuestionIdInputs ==
    {Undefined, Some({}), Some({"q1"}), Some({"q2", "q3"}),
     Some({"q1", "q2", "q3"}), Some({"q2", "noSuchQuestion"})}

\* ActiveQuizScreen mounted for route params {testId, shuffle,
\* shuffleAnswers, questionIds}
OpenActiveQuiz ==
    /\ ~ses.mounted
    /\ Len(runs) + Len(pausedRuns) < MaxLineages
    /\ \E q \in Range(quizzes), shuffle \in BOOLEAN,
          shuffleAnswers \in BOOLEAN, questionIds \in QuestionIdInputs :
         Navigate(q.id, shuffle, shuffleAnswers, questionIds, Undefined)
    /\ op' = "openActiveQuiz"
    /\ ret' = "void"
    /\ UNCHANGED <<now, streak, diamonds, runs, pausedRuns, nextId, quizzes,
                   manualConfirmation, timers>>
    /\ StoreCommit

NextSetup == OpenActiveQuiz \/ HandleQuit \/ HandlePause \/ ResumeRun

SpecSetup == InitSession /\ [][NextSetup]_vars

----------------------------------------------------------------------------
(* The quiz library: deleteQuiz over a store that holds runs and paused runs *)

\* deleteQuiz: the three filters
DeleteQuizKeepsRuns(prev, id) == prev
DeleteQuizFilter(prev, id) ==
    LET Keep(r) == r.quizId # id IN SelectSeq(prev, Keep)

\* deleteQuiz: prev.filter((q) => q.id !== id)
DeleteQuizResult(prev, id) ==
    LET Keep(q) == q.id # id IN SelectSeq(prev, Keep)

\* ids a caller may pass: those of the quizzes and one that names no quiz
QuizIdInputs == {q.id : q \in Range(quizzes)} \cup {"noSuchQuiz"}

\* deleteQuiz(id)
DeleteQuiz ==
    /\ \E id \in QuizIdInputs :
         /\ quizzes' = DeleteQuizResult(quizzes, id)
         /\ runs' = DeleteQuizFilter(runs, id)
         /\ pausedRuns' = DeleteQuizFilter(pausedRuns, id)
    /\ op' = "deleteQuiz"
    /\ ret' = "void"
    /\ UNCHANGED <<now, streak, diamonds, nextId, manualConfirmation, ses,
                   timers>>
    /\ StoreCommitNewValue

\* what a screen hands to savePausedRun, apart from the id
PausedRunInputs ==
    {[quizId |-> "quiz1", currentQuestionIndex |-> 1,
      selectedAnswerIds |-> {"b1"},
      answers |-> <<[questionId |-> "q1", selectedAnswerIds |-> {"a1"},
                     isCorrect |-> FALSE]>>,
      shuffle |-> FALSE, shuffleAnswers |-> FALSE, questionIds |-> Undefined],
     [quizId |-> "quiz2", currentQuestionIndex |-> 0,
      selectedAnswerIds |-> {}, answers |-> << >>,
      shuffle |-> TRUE, shuffleAnswers |-> FALSE, questionIds |-> Undefined]}

\* savePausedRun(run), without an id or with the id of a stored paused run
SavePausedRunCall ==
    /\ \E run \in PausedRunInputs,
          existingId \in {Undefined} \cup {Some(r.id) : r \in Range(pausedRuns)} :
         /\ existingId = Undefined =>
              (Len(pausedRuns) < MaxPaused /\ nextId <= MaxIds)
         /\ pausedRuns' =
              SavePausedRunResult(
                pausedRuns,
                [id |-> SavedId(existingId),
                 quizId |-> run.quizId,
                 currentQuestionIndex |-> run.currentQuestionIndex,
                 selectedAnswerIds |-> run.selectedAnswerIds,
                 answers |-> run.answers,
                 shuffle |-> run.shuffle,
                 shuffleAnswers |-> run.shuffleAnswers,
                 questionIds |-> run.questionIds,
                 timestamp |-> now,
                 lineage |-> 0])
         /\ nextId' = IF existingId # Undefined THEN nextId ELSE nextId + 1
    /\ op' = "savePausedRun"
    /\ ret' = "void"
    /\ UNCHANGED <<now, streak, diamonds, runs, screenVars>>
    /\ StoreCommitNewValue

NextLibrary == DeleteQuiz \/ AddRunCall \/ SavePausedRunCall

SpecLibrary == InitSession /\ [][NextLibrary]_vars

----------------------------------------------------------------------------
(* The quiz editor: addQuestion, deleteQuestion and reorderQuestions *)

\* generateId(), as the name of a question
GeneratedQuestionId == "g" \o ToString(nextId)

Max(a, b) == IF a >= b THEN a ELSE b

\* q.questions.reduce((max, qn) => Math.max(max, qn.orderIndex), -1)
RECURSIVE MaxOrder(_)
MaxOrder(questions) ==
    IF questions = << >> THEN 0 - 1
    ELSE Max(MaxOrder(SubSeq(questions, 1, Len(questions) - 1)),
             questions[Len(questions)].orderIndex)

\* prev.map((q) => q.id === quizId ? change(q) : q)
MapQuiz(prev, quizId, Change(_)) ==
    [i \in DOMAIN prev |->
       IF prev[i].id = quizId
       THEN [prev[i] EXCEPT !.questions = Change(prev[i].questions)]
       ELSE prev[i]]

\* addQuestion: the setQuizzes updater
AddQuestionResult(prev, quizId, answers, newId) ==
    LET Change(questions) ==
          Append(questions, [id |-> newId,
                             orderIndex |-> MaxOrder(questions) + 1,
                             answers |-> answers])
    IN  MapQuiz(prev, quizId, Change)

\* deleteQuestion: the setQuizzes updater
DeleteQuestionRenumbers(prev, quizId, questionId) ==
    LET Keep(qn) == qn.id # questionId
        Change(questions) ==
          LET kept == SelectSeq(questions, Keep)
          IN  [i \in DOMAIN kept |-> [kept[i] EXCEPT !.orderIndex = i - 1]]
    IN  MapQuiz(prev, quizId, Change)
DeleteQuestionResult(prev, quizId, questionId) ==
    LET Keep(qn) == qn.id # questionId
        Change(questions) == SelectSeq(questions, Keep)
    IN  MapQuiz(prev, quizId, Change)

\* q.questions.find((qn) => qn.id === id)
FindQuestion(questions, id) ==
    IF \E i \in DOMAIN questions : questions[i].id = id
    THEN Some(questions[CHOOSE i \in DOMAIN questions :
                          /\ questions[i].id = id
                          /\ \A j \in DOMAIN questions :
                                questions[j].id = id => i <= j])
    ELSE Undefined

\* reorderQuestions: questionIds.map(...).filter(Boolean), from position index
RECURSIVE Reordered(_, _, _)
Reordered(questions, questionIds, index) ==
    IF index > Len(questionIds) THEN << >>
    ELSE LET question == FindQuestion(questions, questionIds[index])
         IN  (IF question # Undefined
              THEN <<[question[1] EXCEPT !.orderIndex = index - 1]>>
              ELSE << >>)
             \o Reordered(questions, questionIds, index + 1)

\* reorderQuestions: the setQuizzes updater
ReorderKeepsOrderIndex(prev, quizId, questionIds) ==
    LET Change(questions) ==
          LET r == Reordered(questions, questionIds, 1)
          IN  [i \in DOMAIN r |->
                 [r[i] EXCEPT !.orderIndex =
                    FindQuestion(questions, r[i].id)[1].orderIndex]]
    IN  MapQuiz(prev, quizId, Change)
ReorderQuestionsResult(prev, quizId, questionIds) ==
    LET Change(questions) == Reordered(questions, questionIds, 1)
    IN  MapQuiz(prev, quizId, Change)

\* the sequences without repetition over the members of S
RECURSIVE SeqsOf(_)
SeqsOf(S) ==
    {<< >>} \cup UNION {{<<x>> \o t : t \in SeqsOf(S \ {x})} : x \in S}

\* the ids of the questions of the quiz quizId
QuestionIdsOf(quizId) ==
    UNION {{qn.id : qn \in Range(q.questions)} :
             q \in {x \in Range(quizzes) : x.id = quizId}}

\* lists a caller may pass to reorderQuestions: ids of the quiz and an id
\* that names no question, in any order, each at most once
OrderedIdInputs(quizId) == SeqsOf(QuestionIdsOf(quizId) \cup {"noSuchQuestion"})

\* addQuestion(quizId, question)
AddQuestion ==
    /\ nextId <= MaxAdded
    /\ \E quizId \in QuizIdInputs :
         /\ \A q \in Range(quizzes) :
              q.id = quizId => Len(q.questions) < MaxQuestions
         /\ quizzes' = AddQuestionResult(
                         quizzes, quizId,
                         <<[id |-> "n1", isCorrect |-> TRUE]>>,
                         GeneratedQuestionId)
    /\ nextId' = nextId + 1
    /\ op' = "addQuestion"
    /\ ret' = "void"
    /\ UNCHANGED <<now, streak, diamonds, runs, pausedRuns,
                   manualConfirmation, ses, timers>>
    /\ StoreCommitNewValue

\* deleteQuestion(quizId, questionId)
DeleteQuestion ==
    /\ \E quizId \in QuizIdInputs :
         \E questionId \in QuestionIdsOf(quizId) \cup {"noSuchQuestion"} :
           quizzes' = DeleteQuestionResult(quizzes, quizId, questionId)
    /\ op' = "deleteQuestion"
    /\ ret' = "void"
    /\ UNCHANGED <<now, streak, diamonds, runs, pausedRuns, nextId,
                   manualConfirmation, ses, timers>>
    /\ StoreCommitNewValue

\* reorderQuestions(quizId, questionIds)
ReorderQuestions ==
    /\ \E quizId \in QuizIdInputs :
         \E questionIds \in OrderedIdInputs(quizId) :
           quizzes' = ReorderQuestionsResult(quizzes, quizId, questionIds)
    /\ op' = "reorderQuestions"
    /\ ret' = "void"
    /\ UNCHANGED <<now, streak, diamonds, runs, pausedRuns, nextId,
                   manualConfirmation, ses, timers>>
    /\ StoreCommitNewValue

NextEditor == AddQuestion \/ DeleteQuestion \/ ReorderQuestions

SpecEditor == InitSession /\ [][NextEditor]_vars

----------------------------------------------------------------------------
(* The catalog under every editing operation: addQuiz (the editor's empty
   quiz and imported quizzes), addQuestion, updateQuestion, deleteQuestion
   and reorderQuestions *)

\* addQuiz: the setQuizzes updater.  The questions are copied as supplied
\* (the ids here are all supplied, so q.id || generateId() keeps them).
AddQuizResult(prev, questions, newId) ==
    Append(prev, [id |-> newId, questions |-> questions])

\* updateQuestion: the setQuizzes updater, {...qn, ...updates} with the
\* answers the question editor passes
UpdateQuestionResult(prev, quizId, questionId, answers) ==
    LET Change(questions) ==
          [i \in DOMAIN questions |->
             IF questions[i].id = questionId
             THEN [questions[i] EXCEPT !.answers = answers]
             ELSE questions[i]]
    IN  MapQuiz(prev, quizId, Change)

\* question lists addQuiz receives: none from the editor's "new test", and
\* from the import dialog whatever the pasted JSON holds
ImportedQuestionInputs ==
    {<< >>,
     << [id |-> "x1", orderIndex |-> 0,
         answers |-> << [id |-> "e1", isCorrect |-> TRUE] >>],
        [id |-> "x2", orderIndex |-> 1,
         answers |-> << [id |-> "f1", isCorrect |-> TRUE] >>] >>,
     << [id |-> "x1", orderIndex |-> 0,
         answers |-> << [id |-> "e1", isCorrect |-> TRUE] >>],
        [id |-> "x2", orderIndex |-> 0,
         answers |-> << [id |-> "f1", isCorrect |-> TRUE] >>] >>}

\* answers the question editor may save: with a correct answer, and with the
\* correct answer dropped because its text was empty
EditedAnswerInputs ==
    {<< [id |-> "n1", isCorrect |-> TRUE], [id |-> "n2", isCorrect |-> FALSE] >>,
     << [id |-> "n2", isCorrect |-> FALSE] >>}

\* addQuiz(quiz)
AddQuiz ==
    /\ nextId <= MaxAdded
    /\ Len(quizzes) < MaxQuizzes
    /\ \E questions \in ImportedQuestionInputs :
         quizzes' = AddQuizResult(quizzes, questions, GeneratedQuestionId)
    /\ nextId' = nextId + 1
    /\ op' = "addQuiz"
    /\ ret' = "void"
    /\ UNCHANGED <<now, streak, diamonds, runs, pausedRuns,
                   manualConfirmation, ses, timers>>
    /\ StoreCommitNewValue

\* updateQuestion(quizId, questionId, updates)
UpdateQuestion ==
    /\ \E quizId \in QuizIdInputs :
         \E questionId \in QuestionIdsOf(quizId) \cup {"noSuchQuestion"},
            answers \in EditedAnswerInputs :
           quizzes' = UpdateQuestionResult(quizzes, quizId, questionId, answers)
    /\ op' = "updateQuestion"
    /\ ret' = "void"
    /\ UNCHANGED <<now, streak, diamonds, runs, pausedRuns, nextId,
                   manualConfirmation, ses, timers>>
    /\ StoreCommitNewValue

\* a store that holds one quiz of one question
InitCatalog ==
    /\ now = 0
    /\ streak = DefaultStreak
    /\ diamonds = Num(0)
    /\ runs = << >>
    /\ pausedRuns = << >>
    /\ nextId = 1
    /\ quizzes = <<Catalog[2]>>
    /\ manualConfirmation = FALSE
    /\ ses = NoSession
    /\ timers = {}
    /\ isInitialized = TRUE
    /\ storage = [item |-> Some(Text(Stringify(Data))), lastWrite |-> "ok"]
    /\ saveTimers = << >>
    /\ op = "init"
    /\ ret = "void"

NextCatalog ==
    \/ AddQuiz
    \/ AddQuestion
    \/ UpdateQuestion
    \/ DeleteQuestion
    \/ ReorderQuestions

SpecCatalog == InitCatalog /\ [][NextCatalog]_vars

----------------------------------------------------------------------------
(* Editing a quiz that has a paused session: a session of quiz1 is started,
   answered and paused from the exit dialog, and while the paused run is
   stored the editor deletes, updates and reorders questions of the quiz *)

\* a store that holds quiz1 alone, with manual confirmation switched on
InitPausedEdit ==
    /\ now = 0
    /\ streak = DefaultStreak
    /\ diamonds = Num(0)
    /\ runs = << >>
    /\ pausedRuns = << >>
    /\ nextId = 1
    /\ quizzes = <<Catalog[1]>>
    /\ manualConfirmation = TRUE
    /\ ses = NoSession
    /\ timers = {}
    /\ isInitialized = TRUE
    /\ storage = [item |-> Some(Text(Stringify(Data))), lastWrite |-> "ok"]
    /\ saveTimers = << >>
    /\ op = "init"
    /\ ret = "void"

\* the editor is open: no quiz is being played and a paused run is stored
EditorWithPausedRun == ~ses.mounted /\ pausedRuns # << >>

\* deleteQuestion(quizId, questionId) from the editor
DeleteQuestionWhilePaused == EditorWithPausedRun /\ DeleteQuestion

\* updateQuestion(quizId, questionId, updates) from the editor
UpdateQuestionWhilePaused == EditorWithPausedRun /\ UpdateQuestion

\* reorderQuestions(quizId, questionIds) from the editor
ReorderQuestionsWhilePaused == EditorWithPausedRun /\ ReorderQuestions

NextPausedEdit ==
    \/ StartQuiz
    \/ HandleAnswerSelect
    \/ HandleSubmit
    \/ HandleNext
    \/ HandleQuit
    \/ HandlePause
    \/ DeleteQuestionWhilePaused
    \/ UpdateQuestionWhilePaused
    \/ ReorderQuestionsWhilePaused

SpecPausedEdit == InitPausedEdit /\ [][NextPausedEdit]_vars

----------------------------------------------------------------------------
(* The store over one launch: load, mutations before and after it, and the
   debounced save *)

\* updateSettings(updates): setSettings((prev) => ({...prev, ...updates}))
UpdateSettings ==
    /\ \E m \in BOOLEAN : manualConfirmation' = m
    /\ op' = "updateSettings"
    /\ ret' = "void"
    /\ UNCHANGED <<now, streak, diamonds, runs, pausedRuns, nextId, quizzes,
                   ses, timers>>
    /\ StoreCommitNewValue

\* a document written by this version of the store
FullDocument ==
    Stringify(DataOf(Catalog, << >>, << >>, TRUE, DefaultStreak, Num(450)))

\* a document written before pausedRuns and diamonds were added to the store
LegacyDocument ==
    [FullDocument EXCEPT !.pausedRuns = Undefined, !.diamonds = Undefined]

\* what AsyncStorage may hold under STORAGE_KEY when the app is launched
StoredItems ==
    {Undefined, Some(Truncated(FullDocument)), Some(Text(FullDocument)),
     Some(Text(LegacyDocument))}

\* StoreProvider is mounted: every useState at its default, the load pending
InitPersist ==
    /\ now = 0
    /\ streak = DefaultStreak
    /\ diamonds = Num(0)
    /\ runs = << >>
    /\ pausedRuns = << >>
    /\ nextId = 1
    /\ quizzes = << >>
    /\ manualConfirmation = FALSE
    /\ ses = NoSession
    /\ timers = {}
    /\ isInitialized = FALSE
    /\ storage \in {[item |-> i, lastWrite |-> "none"] : i \in StoredItems}
    /\ saveTimers = << >>
    /\ op = "init"
    /\ ret = "void"

\* loadData: how its try block ends
LoadOutcomeIgnoresParseError(item, readThrows) ==
    IF readThrows THEN "caught"
    ELSE IF item = Undefined THEN "noItem"
    ELSE "loaded"
LoadOutcome(item, readThrows) ==
    IF readThrows THEN "caught"
    ELSE IF item = Undefined THEN "noItem"
    ELSE IF ~item[1].parses THEN "caught"
    ELSE "loaded"

\* loadData, from the resolution of getItem to setIsInitialized(true), and
\* the effects that isInitialized sets off: the streak check and the save
LoadData ==
    /\ ~isInitialized
    /\ \E readThrows \in BOOLEAN :
         LET outcome == LoadOutcome(storage.item, readThrows)
             data == IF outcome = "loaded"
                     THEN Loaded(Data, storage.item[1].json)
                     ELSE Data
         IN  /\ quizzes' = data.quizzes
             /\ runs' = data.runs
             /\ pausedRuns' = data.pausedRuns
             /\ manualConfirmation' = data.settings.manualConfirmation
             /\ streak' = CheckStreakResult(data.streak, now)
             /\ diamonds' = data.diamonds
             /\ ret' = outcome
    /\ isInitialized' = TRUE
    /\ op' = "loadData"
    /\ UNCHANGED <<now, nextId, ses, timers, storage>>
    /\ SaveEffect(TRUE)

\* saveData, run by the oldest pending timer: setItem resolves or rejects
SaveData ==
    /\ saveTimers # << >>
    /\ \E writeFails \in BOOLEAN :
         /\ storage' = IF writeFails
                       THEN [storage EXCEPT !.lastWrite = "failed"]
                       ELSE [item |-> Some(Text(Stringify(Head(saveTimers)))),
                             lastWrite |-> "ok"]
         /\ ret' = IF writeFails THEN "caught" ELSE "void"
    /\ saveTimers' = Tail(saveTimers)
    /\ op' = "saveData"
    /\ UNCHANGED <<now, streak, diamonds, runs, pausedRuns, nextId, quizzes,
                   manualConfirmation, ses, timers, isInitialized>>

\* addRun with the run of a finished quiz
AddRunOfFinishedQuiz == AddRun(FinishRunInput("quiz1", SampleAnswers(3, 1)))

NextPersist ==
    \/ LoadData
    \/ SaveData
    \/ UpdateSettings
    \/ BuyFreezer
    \/ AddRunOfFinishedQuiz

SpecPersist == InitPersist /\ [][NextPersist]_vars

\* the event loop runs a timer that is due
SpecPersistLive == SpecPersist /\ WF_vars(SaveData)

----------------------------------------------------------------------------
(* Claims about the streak accountant and the ledger *)

\* the ticks of the day of t that are not before t
RestOfDay(t) == {u \in t .. MaxTime : Today(u) = Today(t)}

\* number of calendar days strictly between day `last` and day `today`
DaysBetween(last, today) == today - last - 1

(* C1: updateStreak is idempotent within a calendar day.  In every reachable
   store state, at every time, a second updateStreak later on the same day
   returns what the first one returned (currentStreak, lastCompletedDate,
   freezers and history alike), and when lastCompletedDate is already today
   the call returns StreakData unchanged. *)
C1_UpdateStreakIdempotent ==
    /\ streak.lastCompletedDate = <<Today(now)>>
          => UpdateStreakResult(streak, now) = streak
    /\ \A u \in RestOfDay(now) :
          UpdateStreakResult(UpdateStreakResult(streak, now), u)
            = UpdateStreakResult(streak, now)

\* an updateStreak has just extended a streak: a second call on this day
\* would find lastCompletedDate = today
C1_Witness ==
    /\ op = "updateStreak"
    /\ streak.lastCompletedDate = <<Today(now)>>
    /\ streak.currentStreak >= 2
    /\ Cardinality(RestOfDay(now)) >= 2

(* C2: a call of updateStreak made when lastCompletedDate is not today sets
   currentStreak to the previous value + 1 if lastCompletedDate is yesterday
   and to 1 otherwise (null included), sets lastCompletedDate to today and
   history[today] to completed, and leaves freezers and all other history
   entries unchanged. *)
C2_UpdateStreakTransition ==
    [][(op' = "updateStreak" /\ streak.lastCompletedDate # <<Today(now)>>)
        => /\ streak'.currentStreak =
                 IF streak.lastCompletedDate = <<Today(now) - 1>>
                 THEN streak.currentStreak + 1
                 ELSE 1
           /\ streak'.lastCompletedDate = <<Today(now)>>
           /\ streak'.history[Today(now)] = "completed"
           /\ streak'.freezers = streak.freezers
           /\ \A d \in Days \ {Today(now)} :
                 streak'.history[d] = streak.history[d]]_vars

\* both branches have been taken: a streak of 3 was built day after day, and
\* history also shows a completed day that a restart followed
C2_Witness ==
    /\ op = "updateStreak"
    /\ streak.currentStreak = 1
    /\ streak.lastCompletedDate = <<Today(now)>>
    /\ \E d \in Days : d + 2 <= Today(now) /\ streak.history[d] = "completed"
    /\ streak.freezers >= 1

(* C3: at store initialization, if lastCompletedDate is n >= 2 calendar days
   before today and freezers >= n-1 (the days strictly between), the gap
   check subtracts exactly n-1 from freezers, marks exactly those n-1 days
   (not today) as freezed, sets lastCompletedDate to yesterday and leaves
   currentStreak unchanged. *)
C3_GapCheckConsumesDaysBetween ==
    [][(/\ op' = "checkStreak"
        /\ streak.lastCompletedDate # << >>
        /\ Today(now) - streak.lastCompletedDate[1] >= 2
        /\ streak.freezers
             >= DaysBetween(streak.lastCompletedDate[1], Today(now)))
        => LET last == streak.lastCompletedDate[1]
               n1 == DaysBetween(last, Today(now))
           IN  /\ streak'.freezers = streak.freezers - n1
               /\ \A d \in Days :
                     streak'.history[d] =
                       IF last < d /\ d < Today(now)
                       THEN "freezed"
                       ELSE streak.history[d]
               /\ streak'.lastCompletedDate = <<Today(now) - 1>>
               /\ streak'.currentStreak = streak.currentStreak]_vars

(* C4: at store initialization, if lastCompletedDate is more than one day
   before today and freezers is smaller than the number of days strictly
   between lastCompletedDate and today, the gap check sets currentStreak to 0
   and leaves freezers, lastCompletedDate and history unchanged. *)
C4_GapCheckResetsStreak ==
    [][(/\ op' = "checkStreak"
        /\ streak.lastCompletedDate # << >>
        /\ Today(now) - streak.lastCompletedDate[1] >= 2
        /\ streak.freezers
             < DaysBetween(streak.lastCompletedDate[1], Today(now)))
        => streak' = [streak EXCEPT !.currentStreak = 0]]_vars

\* the example of the claim: last completion 4 days ago, 1 freezer, and the
\* gap check has run and reset the streak
C4_Witness ==
    /\ op = "checkStreak"
    /\ streak.lastCompletedDate = <<Today(now) - 4>>
    /\ streak.freezers = 1
    /\ streak.currentStreak = 0

(* C5: buyFreezer returns true only if diamonds >= 100 and freezers < 3; on
   success it debits exactly 100 diamonds and adds exactly 1 freezer; on
   failure it returns false and leaves diamonds and StreakData unchanged;
   diamonds never becomes negative. *)
C5_BuyFreezerContract ==
    [][op' = "buyFreezer"
        => /\ ret' = "true"
                => /\ RatGeq(diamonds, Num(FreezerCost))
                   /\ streak.freezers < FreezerCap
                   /\ diamonds' = RatSub(diamonds, Num(FreezerCost))
                   /\ streak' =
                        [streak EXCEPT !.freezers = streak.freezers + 1]
           /\ ret' = "false" => diamonds' = diamonds /\ streak' = streak
           /\ ret' \in {"true", "false"}
           /\ RatGeq(diamonds', Num(0))]_vars

(* C6: addRun computes diamondsEarned = totalQuestions * 0.5 *
   (scorePercentage / 100) (10 questions at 80 percent give 4), adds exactly
   that amount to diamonds, and puts the new run at the head of the ledger,
   every existing run unchanged and in its previous relative order. *)
C6_AddRunCreditsAndPrepends ==
    [][op' = "addRun"
        => /\ Len(runs') = Len(runs) + 1
           /\ RatMul(runs'[1].diamondsEarned, Num(200))
                = RatMul(Num(runs'[1].totalQuestions),
                         runs'[1].scorePercentage)
           /\ (runs'[1].totalQuestions = 10
                  /\ runs'[1].scorePercentage = Num(80))
                => runs'[1].diamondsEarned = Num(4)
           /\ diamonds' = RatAdd(diamonds, runs'[1].diamondsEarned)
           /\ \A r \in 1 .. Len(runs) : runs'[1].id # runs[r].id
           /\ \A i \in 1 .. Len(runs) : runs'[i + 1] = runs[i]]_vars

\* the example of the claim was added on top of two earlier runs
C6_Witness ==
    /\ op = "addRun"
    /\ Len(runs) = 3
    /\ runs[1].totalQuestions = 10
    /\ runs[1].scorePercentage = Num(80)
    /\ runs[1].diamondsEarned = Num(4)
    /\ runs[3].totalQuestions = 3

----------------------------------------------------------------------------
(* Claims about the quiz session *)

\* the number of answers of a run marked correct
MarkedCorrect(answers) ==
    Cardinality({i \in DOMAIN answers : answers[i].isCorrect})

(* C7: mini-run isolation.  While a session that was started with a
   non-empty questionIds subset is on screen, no step (toggling an answer,
   submitting, advancing, the auto-advance timer, pausing, backgrounding,
   ending early, finishing) changes the run ledger, the diamond balance, the
   streak data or the list of paused runs. *)
C7_MiniRunIsolation ==
    [][(ses.mounted /\ NonEmptyIds(ses.questionIds))
         => UNCHANGED <<runs, diamonds, streak, pausedRuns>>]_vars

\* a mini-run was played to its last question and finished
C7_Witness ==
    /\ op = "handleNext"
    /\ ret = "resultsMini"
    /\ ~ses.mounted
    /\ Len(runs) = 1

(* C8: scoring invariant.  Every run in the ledger that is not flagged
   incomplete has correctCount equal to the number of its answers marked
   correct, correctCount + wrongCount = len(answers) = totalQuestions, and
   scorePercentage * totalQuestions = 100 * correctCount. *)
C8_ScoringInvariant ==
    \A i \in DOMAIN runs :
      ~runs[i].isIncomplete =>
        /\ runs[i].correctCount = MarkedCorrect(runs[i].answers)
        /\ runs[i].correctCount + runs[i].wrongCount = Len(runs[i].answers)
        /\ Len(runs[i].answers) = runs[i].totalQuestions
        /\ RatMul(runs[i].scorePercentage, Num(runs[i].totalQuestions))
             = Num(100 * runs[i].correctCount)

\* a quiz of two questions was finished with one right and one wrong
C8_Witness ==
    \E i \in DOMAIN runs :
      /\ ~runs[i].isIncomplete
      /\ runs[i].totalQuestions = 2
      /\ runs[i].correctCount = 1
      /\ runs[i].wrongCount = 1

(* C9: ending a session that is not a mini-run early adds exactly one run, at
   the head of the ledger, flagged isIncomplete, whose answers are the
   answers submitted so far; its totalQuestions is the number of those
   answers and never more than the number of questions presented, its
   wrongCount is totalQuestions - correctCount, and its score is
   100 * correctCount / totalQuestions over those answers (0 when there are
   none). *)
C9_EndEarlyWritesIncompleteRun ==
    [][(op' = "handleEndEarly" /\ ~NonEmptyIds(ses.questionIds))
         => /\ Len(runs') = Len(runs) + 1
            /\ SubSeq(runs', 2, Len(runs')) = runs
            /\ runs'[1].isIncomplete
            /\ runs'[1].answers = ses.answers
            /\ runs'[1].totalQuestions = Len(ses.answers)
            /\ runs'[1].totalQuestions <= Cardinality(ses.presented)
            /\ runs'[1].correctCount = MarkedCorrect(ses.answers)
            /\ runs'[1].wrongCount
                 = runs'[1].totalQuestions - runs'[1].correctCount
            /\ IF Len(ses.answers) > 0
               THEN RatMul(runs'[1].scorePercentage, Num(Len(ses.answers)))
                      = Num(100 * MarkedCorrect(ses.answers))
               ELSE runs'[1].scorePercentage = Num(0)]_vars

\* a session was ended early on its second question, one answer submitted
C9_Witness ==
    /\ op = "handleEndEarly"
    /\ ret = "results"
    /\ Len(runs) = 1
    /\ runs[1].isIncomplete
    /\ runs[1].totalQuestions = 1
    /\ runs[1].quizId = "quiz1"

(* C10: when handleSubmit records an answer, the answer carries the current
   question and the selection, and its isCorrect is true exactly when the
   set of selected answer ids equals the set of the question's correct
   answer ids; a strict subset or a strict superset is recorded as wrong. *)
C10_IsCorrectIffExactSet ==
    [][(op' = "handleSubmit" /\ Len(ses'.answers) = Len(ses.answers) + 1)
         => LET recorded == ses'.answers[Len(ses'.answers)]
                correctIds == CorrectIds(CurrentQuestion(ses)[1])
            IN  /\ recorded.questionId = CurrentQuestion(ses)[1].id
                /\ recorded.selectedAnswerIds = ses.selectedAnswerIds
                /\ recorded.isCorrect <=> (ses.selectedAnswerIds = correctIds)]_vars

\* a strict superset of the correct set was just submitted and recorded wrong
C10_Witness ==
    /\ op = "handleSubmit"
    /\ ses.answers # << >>
    /\ LET recorded == ses.answers[Len(ses.answers)]
       IN  /\ recorded.questionId = "r1"
           /\ recorded.selectedAnswerIds = {"d1", "d2"}
           /\ ~recorded.isCorrect

\* the paused runs of a list that belong to the lineage of session s
OfLineage(list, s) == {p \in Range(list) : p.lineage = s.lineage}

\* a paused run holds the position, selection and answers of session s
HoldsStateOf(p, s) ==
    /\ p.currentQuestionIndex = s.currentIndex
    /\ p.selectedAnswerIds = s.selectedAnswerIds
    /\ p.answers = s.answers

(* C11: pause/resume round trip.  Pausing a session that is not a mini-run,
   at index i with selection S and submitted answers A, stores a paused run
   that holds i, S and A; resuming from a paused run mounts a session that
   is not submitted and has that run's index, selection and answers,
   whatever the shuffle flags. *)
C11_PauseResumeRoundTrip ==
    [][/\ (op' = "handlePause" /\ ~SessionIsMiniRun(ses))
            => \E p \in OfLineage(pausedRuns', ses) : HoldsStateOf(p, ses)
       /\ op' = "resumeRun"
            => \E p \in Range(pausedRuns) :
                 /\ ses'.pausedRunId = Some(p.id)
                 /\ HoldsStateOf(p, ses')
                 /\ ~ses'.isSubmitted]_vars

(* C12: pause is an upsert.  Whatever the order of explicit pauses,
   backgrounding signals and resumes of one session lineage, the store holds
   at most one paused run of that lineage, and after a pause or a
   backgrounding save it holds the state of the session at that moment. *)
C12_PauseIsUpsert ==
    [][/\ \A i, j \in DOMAIN pausedRuns' :
            pausedRuns'[i].lineage = pausedRuns'[j].lineage => i = j
       /\ (op' \in {"handlePause", "appBackground"} /\ pausedRuns' # pausedRuns)
            => \A p \in OfLineage(pausedRuns', ses) : HoldsStateOf(p, ses)]_vars

(* C13: when a session that is not a mini-run completes, by finishing the
   last question or by ending early, no paused run of its lineage is left in
   the store, also when that paused run was first created by backgrounding
   or by a pause earlier in the same session. *)
C13_CompletionDropsPausedRun ==
    [][(op' \in {"handleNext", "autoAdvance", "handleEndEarly"}
          /\ ret' = "results")
         => OfLineage(pausedRuns', ses) = {}]_vars

----------------------------------------------------------------------------
(* Claims about the quiz library and the quiz editor *)

(* C14: deleteQuiz(id) removes the quiz with that id and every run and
   paused run whose quizId is id, keeps every other quiz, run and paused run
   in order, leaves settings, streak data and diamonds unchanged, and
   afterwards no run or paused run references id. *)
C14_DeleteQuizCascades ==
    [][op' = "deleteQuiz"
         => \E id \in QuizIdInputs :
              LET KeepQuiz(q) == q.id # id
                  KeepRun(r) == r.quizId # id
              IN  /\ quizzes' = SelectSeq(quizzes, KeepQuiz)
                  /\ runs' = SelectSeq(runs, KeepRun)
                  /\ pausedRuns' = SelectSeq(pausedRuns, KeepRun)
                  /\ \A r \in Range(runs') \cup Range(pausedRuns') :
                       r.quizId # id
                  /\ UNCHANGED <<manualConfirmation, streak, diamonds>>]_vars

\* quiz1 was deleted from a store that held a run and a paused run of quiz1
\* and a run of quiz2; only the run of quiz2 is left
C14_Witness ==
    /\ op = "deleteQuiz"
    /\ {q.id : q \in Range(quizzes)} = {"quiz2"}
    /\ Len(runs) = 1
    /\ runs[1].quizId = "quiz2"
    /\ Len(pausedRuns) = 1
    /\ pausedRuns[1].quizId = "quiz2"

\* the 1-based position of x in the sequence seq
PositionIn(seq, x) == CHOOSE i \in DOMAIN seq : seq[i] = x

\* the question ids of a quiz in the order of their orderIndex
CurrentOrder(quizId) ==
    LET quiz == GetQuiz(quizId)
    IN  IF quiz = Undefined THEN << >>
        ELSE LET sorted == SortByOrderIndex(quiz[1].questions)
             IN  [i \in DOMAIN sorted |-> sorted[i].id]

(* C15: reorderQuestions(quizId, orderedIds) makes the question list of the
   quiz follow orderedIds: the kept questions are those whose id occurs in
   orderedIds, in that order, each with orderIndex equal to the 0-based
   position of its id in orderedIds and its answers unchanged; questions
   whose id is absent are dropped and every other quiz is unchanged. *)
C15_ReorderFollowsOrderedIds ==
    [][op' = "reorderQuestions"
         => \E quizId \in QuizIdInputs :
              \E orderedIds \in OrderedIdInputs(quizId) :
                /\ Len(quizzes') = Len(quizzes)
                /\ \A i \in DOMAIN quizzes :
                     IF quizzes[i].id # quizId
                     THEN quizzes'[i] = quizzes[i]
                     ELSE LET old == quizzes[i].questions
                              new == quizzes'[i].questions
                              Present(id) == \E qn \in Range(old) : qn.id = id
                              kept == SelectSeq(orderedIds, Present)
                          IN  /\ quizzes'[i].id = quizId
                              /\ Len(new) = Len(kept)
                              /\ \A k \in DOMAIN kept :
                                   /\ new[k].id = kept[k]
                                   /\ new[k].orderIndex
                                        = PositionIn(orderedIds, kept[k]) - 1
                                   /\ \E qn \in Range(old) :
                                        /\ qn.id = kept[k]
                                        /\ qn.answers = new[k].answers]_vars

\* quiz1 was reordered to q3, q1 (q2 left out) and renumbered 0, 1
C15_Witness ==
    /\ op = "reorderQuestions"
    /\ \E i \in DOMAIN quizzes :
         /\ quizzes[i].id = "quiz1"
         /\ Len(quizzes[i].questions) = 2
         /\ quizzes[i].questions[1].id = "q3"
         /\ quizzes[i].questions[1].orderIndex = 0
         /\ quizzes[i].questions[2].id = "q1"
         /\ quizzes[i].questions[2].orderIndex = 1

(* C16: reorderQuestions is idempotent.  In every quiz reachable by
   addQuestion, deleteQuestion and reorderQuestions, a call of
   reorderQuestions with the question ids in their current orderIndex order
   leaves the orderIndex of every question unchanged. *)
C16_ReorderIdempotent ==
    [][op' = "reorderQuestions"
         => \A quizId \in QuizIdInputs :
              quizzes' = ReorderQuestionsResult(quizzes, quizId,
                                                CurrentOrder(quizId))
                => \A i \in DOMAIN quizzes :
                     quizzes[i].id = quizId
                       => \A qn \in Range(quizzes[i].questions) :
                            \E qm \in Range(quizzes'[i].questions) :
                              /\ qm.id = qn.id
                              /\ qm.orderIndex = qn.orderIndex]_vars

----------------------------------------------------------------------------
(* Claims about the freezer count *)

(* C20: in every state reachable by buyFreezer, addRun, updateStreak and the
   gap check at initialization, the freezer count is at least 0 and at most
   3. *)
C20_FreezersWithinCap ==
    streak.freezers >= 0 /\ streak.freezers <= FreezerCap

----------------------------------------------------------------------------
(* Claims about persistence *)

\* the stored document is the text of the state now in memory
Persisted == storage.item = Some(Text(Stringify(Data)))

(* C17: debounced save.  Once the store is initialized, every mutation
   leaves exactly one pending write, holding the state as of that mutation
   (a write that was pending is cancelled); when the timer fires, one write
   is issued with that state and none stays pending; and from every
   initialized state the stored document eventually equals the state in
   memory, unless the last write failed. *)
C17_DebouncedSave ==
    /\ [][/\ (isInitialized /\ Data' # Data) => saveTimers' = <<Data'>>
          /\ op' = "saveData" =>
               /\ saveTimers = <<Data>>
               /\ saveTimers' = << >>
               /\ \/ storage' = [item |-> Some(Text(Stringify(Data))),
                                 lastWrite |-> "ok"]
                  \/ storage' = [storage EXCEPT !.lastWrite = "failed"]]_vars
    /\ isInitialized ~> (Persisted \/ storage.lastWrite = "failed")

\* two runs were added before the timer fired, and one write stored both
C17_Witness ==
    /\ op = "saveData"
    /\ ret = "void"
    /\ Len(runs) = 2
    /\ manualConfirmation
    /\ streak.freezers = 1
    /\ saveTimers = << >>
    /\ Persisted

(* C18: while the initial load has not finished (isInitialized is false) no
   write is pending and none has been issued, whatever mutations arrive in
   the meantime; the stored document is as the launch found it. *)
C18_NoWriteBeforeLoad ==
    ~isInitialized => (saveTimers = << >> /\ storage.lastWrite = "none")

\* settings were changed and a run was added while the load was in flight
C18_Witness ==
    /\ ~isInitialized
    /\ manualConfirmation
    /\ Len(runs) = 1
    /\ storage.item = Some(Text(FullDocument))

(* C19: load never fails the store.  Every load ends with isInitialized
   true; when the key is missing, the read throws or the text does not
   parse, load changes nothing in memory, so a store still at its defaults
   stays at its defaults; and a write that fails leaves the state in memory
   as it was. *)
C19_LoadNeverFails ==
    [][/\ op' = "loadData" =>
            /\ isInitialized'
            /\ ret' \in {"loaded", "noItem", "caught"}
            /\ ret' = "loaded" =>
                 (storage.item # Undefined /\ storage.item[1].parses)
            /\ ret' # "loaded" =>
                 /\ Data' = Data
                 /\ Data = DefaultData => Data' = DefaultData
       /\ (op' = "saveData" /\ ret' = "caught") =>
            /\ Data' = Data
            /\ storage'.item = storage.item]_vars

\* a text that does not parse was found, and the store started at defaults
C19_Witness ==
    /\ op = "loadData"
    /\ ret = "caught"
    /\ isInitialized
    /\ storage.item = Some(Truncated(FullDocument))
    /\ Data = DefaultData

----------------------------------------------------------------------------
(* Claims about the catalog *)

(* C21: in every reachable state no two questions of one quiz have the same
   orderIndex, whatever sequence of addQuiz (also with questions supplied),
   addQuestion, updateQuestion, deleteQuestion and reorderQuestions led
   there; and addQuestion gives the new question the largest orderIndex of
   the quiz plus 1, or 0 when the quiz has no questions. *)
C21_OrderIndexUnique ==
    [][/\ \A q \in Range(quizzes') :
            \A i, j \in DOMAIN q.questions :
              q.questions[i].orderIndex = q.questions[j].orderIndex => i = j
       /\ op' = "addQuestion" =>
            \A k \in DOMAIN quizzes :
              Len(quizzes'[k].questions) = Len(quizzes[k].questions) + 1 =>
                quizzes'[k].questions[Len(quizzes'[k].questions)].orderIndex
                  = IF quizzes[k].questions = << >> THEN 0
                    ELSE MaxOrder(quizzes[k].questions) + 1]_vars

----------------------------------------------------------------------------
(* Claims about the end of a session, timers and backgrounding *)

\* the last question in play of a session that is not a mini-run has been
\* submitted and nothing covers the screen
LastSubmitted ==
    /\ ses.mounted
    /\ ~SessionIsMiniRun(ses)
    /\ ses.isSubmitted
    /\ ses.dialog = Undefined
    /\ ses.currentIndex = Len(ses.questions) - 1

(* C22: in a session that is not a mini-run, once the last question in play
   has been submitted, the step that advances past it (the "next" action
   when manualConfirmation is on, the auto-advance timer when it is off)
   finishes the session: it writes exactly one complete run to the ledger,
   applies the streak completion transition once and leaves the screen. *)
C22_LastSubmitCompletes ==
    [][(LastSubmitted /\ op' \in {"handleNext", "autoAdvance"})
         => /\ Len(runs') = Len(runs) + 1
            /\ ~runs'[1].isIncomplete
            /\ runs'[1].answers = ses.answers
            /\ streak' = UpdateStreakResult(streak, now)
            /\ ~ses'.mounted]_vars

(* C23: leaving the session cancels a pending auto-advance.  When the timer
   set at submit fires after the screen it belongs to was left (by a pause,
   by ending early or by any other unmount), it adds no run, does not touch
   the streak or the diamonds, deletes no paused run and advances no index,
   also not that of a session mounted since. *)
C23_StaleTimerHasNoEffect ==
    [][(op' = "autoAdvance" /\ \E t \in timers : t \notin timers' /\ ~t.live)
         => UNCHANGED <<runs, streak, diamonds, pausedRuns, ses>>]_vars

\* the session was paused while its timer was pending and resumed; the timer
\* then fired and the resumed session is still on its question
C23_Witness ==
    /\ op = "autoAdvance"
    /\ ret = "void"
    /\ ses.mounted
    /\ ses.pausedRunId # Undefined
    /\ ses.currentIndex = 0
    /\ ses.selectedAnswerIds # {}
    /\ Len(ses.questions) > 1
    /\ timers = {}

\* an answer list holds at most one entry per questionId
OnePerQuestion(answers) ==
    \A i, j \in DOMAIN answers :
      answers[i].questionId = answers[j].questionId => i = j

(* C24: the answer list of the session, and of every run in the ledger,
   holds at most one entry per questionId at all times; when a question
   that already has an entry is submitted again (a session paused after
   submitting and resumed), the list, and with it the first answer and its
   isCorrect, stays as it was. *)
C24_OneAnswerPerQuestion ==
    [][/\ OnePerQuestion(ses'.answers)
       /\ \A i \in DOMAIN runs' : OnePerQuestion(runs'[i].answers)
       /\ (/\ op' = "handleSubmit"
           /\ \E a \in Range(ses.answers) :
                a.questionId = CurrentQuestion(ses)[1].id)
            => ses'.answers = ses.answers]_vars

\* a resumed session submitted its question again with another selection,
\* and the answer recorded before the pause is still the only one
C24_Witness ==
    /\ op = "handleSubmit"
    /\ ses.mounted
    /\ ses.pausedRunId # Undefined
    /\ ses.isSubmitted
    /\ Len(ses.answers) = 1
    /\ ses.answers[1].questionId = CurrentQuestion(ses)[1].id
    /\ ses.answers[1].selectedAnswerIds # ses.selectedAnswerIds

(* C25: whenever the app is backgrounded or becomes inactive during a
   session that is not a mini-run and has not finished, in Selecting as in
   Submitted, the store afterwards holds a paused run of that session with
   its current question index, its selection and all submitted answers. *)
C25_BackgroundingSavesSession ==
    [][(op' = "appBackground" /\ ses.mounted /\ ~SessionIsMiniRun(ses))
         => \E p \in OfLineage(pausedRuns', ses) : HoldsStateOf(p, ses)]_vars

(* C26: the store holds at most one paused run per quizId at all times, and
   a new session for a quiz is not started while a paused run of that quiz
   is in the store (it has to be resumed or deleted first). *)
C26_OnePausedRunPerQuiz ==
    [][/\ \A i, j \in DOMAIN pausedRuns' :
            pausedRuns'[i].quizId = pausedRuns'[j].quizId => i = j
       /\ op' = "startQuiz" =>
            \A p \in Range(pausedRuns) : p.quizId # ses'.testId]_vars

\* a question in play is the stored question q with its answers permuted
SameQuestion(played, q) ==
    /\ played.id = q.id
    /\ played.orderIndex = q.orderIndex
    /\ Len(played.answers) = Len(q.answers)
    /\ Range(played.answers) = Range(q.answers)

(* C27: session setup.  Whenever the screen is mounted, for a new session or
   a resumed one, the questions in play are a permutation of exactly the
   quiz's questions that have a correct answer and, when a non-empty
   questionIds subset is given by the route or by the resumed PausedRun,
   belong to it; every question in play keeps all of its answers, each once;
   and without shuffle the questions are in ascending orderIndex order. *)
C27_SetupIsPermutation ==
    [][op' \in {"openActiveQuiz", "resumeRun"} =>
         LET s == ses'
             p == PausedRunOf(s.pausedRunId)
             ids == IF s.questionIds # Undefined THEN s.questionIds
                    ELSE IF p # Undefined THEN p[1].questionIds
                    ELSE Undefined
             given == ids # Undefined /\ ids[1] # {}
             shuffled == s.shuffle \/ (p # Undefined /\ p[1].shuffle)
             stored == GetQuiz(s.testId)[1].questions
             eligible ==
               {i \in DOMAIN stored :
                  /\ \E a \in Range(stored[i].answers) : a.isCorrect
                  /\ given => stored[i].id \in ids[1]}
         IN  /\ Len(s.questions) = Cardinality(eligible)
             /\ \A i \in eligible :
                  \E k \in DOMAIN s.questions :
                     SameQuestion(s.questions[k], stored[i])
             /\ ~shuffled =>
                  \A k \in 1 .. Len(s.questions) - 1 :
                     s.questions[k].orderIndex
                        <= s.questions[k + 1].orderIndex]_vars

\* a session over a subset with both shuffles on: q3 has no correct answer
\* and is left out, q2 comes before q1, and q1's answers are swapped
C27_Witness ==
    /\ op = "openActiveQuiz"
    /\ ses.shuffle /\ ses.shuffleAnswers
    /\ ses.questionIds = Some({"q1", "q2", "q3"})
    /\ Len(ses.questions) = 2
    /\ ses.questions[1].id = "q2"
    /\ ses.questions[2].id = "q1"
    /\ ses.questions[2].answers[1].id = "a2"

\* the gap check of today consumed freezers: the last completed date stands
\* at yesterday, a day that history records as freezed
FrozenGap ==
    /\ Yesterday(now) \in Days
    /\ streak.lastCompletedDate = <<Yesterday(now)>>
    /\ streak.history[Yesterday(now)] = "freezed"

\* the gap check reset the streak: the count is 0 and the last completed
\* date is still the one before the gap
ResetGap ==
    /\ streak.currentStreak = 0
    /\ streak.lastCompletedDate # << >>
    /\ streak.lastCompletedDate[1] < Yesterday(now)

(* C28: streak continuity across a frozen gap.  A gap check that consumes
   freezers leaves currentStreak as it was and the streak data in the frozen
   state; a completion on that day then adds 1 to currentStreak and records
   today as completed.  A gap check that resets the streak leaves the data in
   the reset state, and a completion then sets currentStreak to 1. *)
C28_ContinuityAcrossFrozenGap ==
    [][/\ (op' = "checkStreak" /\ streak'.freezers < streak.freezers) =>
            (streak'.currentStreak = streak.currentStreak /\ FrozenGap')
       /\ (op' = "checkStreak" /\ streak'.currentStreak < streak.currentStreak) =>
            ResetGap'
       /\ (op' = "updateStreak" /\ FrozenGap) =>
            /\ streak'.currentStreak = streak.currentStreak + 1
            /\ streak'.history[Today(now)] = "completed"
       /\ (op' = "updateStreak" /\ ResetGap) =>
            /\ streak'.currentStreak = 1
            /\ streak'.history[Today(now)] = "completed"]_vars

\* a streak of 2 that was carried over a frozen day to a third completion
C28_Witness ==
    /\ op = "updateStreak"
    /\ streak.currentStreak = 3
    /\ streak.lastCompletedDate = <<Today(now)>>
    /\ \E d \in Days : d < Today(now) /\ streak.history[d] = "freezed"

(* C29: ending a session that is not a mini-run early leaves the streak data
   as it was, prepends one run flagged incomplete to the ledger and credits
   that run's diamonds (totalQuestions * 0.5 * scorePercentage / 100); ending
   a mini-run early changes none of the three; and the streak data changes
   only when a session completes naturally and shows its results. *)
C29_EndEarlyLeavesStreak ==
    [][/\ (op' = "handleEndEarly" /\ ~SessionIsMiniRun(ses)) =>
            /\ streak' = streak
            /\ Len(runs') = Len(runs) + 1
            /\ \A i \in DOMAIN runs : runs'[i + 1] = runs[i]
            /\ runs'[1].isIncomplete
            /\ diamonds' =
                 RatAdd(diamonds,
                        RatMul(RatMul(Num(runs'[1].totalQuestions), Rat(1, 2)),
                               RatDiv(runs'[1].scorePercentage, Num(100))))
       /\ (op' = "handleEndEarly" /\ SessionIsMiniRun(ses)) =>
            (streak' = streak /\ runs' = runs /\ diamonds' = diamonds)
       /\ streak' # streak =>
            (op' = "handleNext" /\ ret' = "results"
               /\ ~SessionIsMiniRun(ses))]_vars

\* a session ended early after one correct answer: the ledger holds the
\* incomplete run, half a diamond was credited, the streak is untouched
C29_Witness ==
    /\ op = "handleEndEarly"
    /\ ret = "results"
    /\ Len(runs) = 1
    /\ runs[1].isIncomplete
    /\ runs[1].correctCount = 1
    /\ diamonds = Rat(1, 2)
    /\ streak = DefaultStreak

(* C30: resume always has a current question.  For every PausedRun in the
   store, whatever deleteQuestion, updateQuestion and reorderQuestions did to
   its quiz since the pause, currentQuestionIndex is smaller than the number
   of questions that setup puts in play for it. *)
C30_ResumeHasCurrentQuestion ==
    \A p \in Range(pausedRuns) :
       \A qs \in QuestionsInPlay(GetQuiz(p.quizId), p.shuffle,
                                 p.shuffleAnswers, p.questionIds) :
          p.currentQuestionIndex < Len(qs)

=============================================================================
